---- MODULE Spec2Model ----
(***************************************************************************)
(* Model of library/port_checker.py: an Ansible module that probes a list  *)
(* of TCP ports of one host with a bounded retry loop and asserts that     *)
(* they are all opened or all closed.                                      *)
(*                                                                         *)
(* One run of run_module() is modelled as a sequential process.  The       *)
(* environment decides the outcome of every sock.connect() call.  The      *)
(* variable log is a history of the calls the run makes on the socket and  *)
(* time libraries; clock is a virtual clock that advances only by sleeps.  *)
(***************************************************************************)
EXTENDS Integers, Sequences, FiniteSets, TLC

VARIABLES params, check_mode, pc, idx, retry, sock, nsocks, ports_state,
          result, responses, log, clock

vars == <<params, check_mode, pc, idx, retry, sock, nsocks, ports_state,
          result, responses, log, clock>>

\* ---------------------------------------------------------------- bounds
MaxPorts == 2        \* longest ports list of a request
MaxRetries == 3      \* largest retries value of a request

\* ------------------------------------------------------- module constants
MOD_DRYRUN == "dryrun"
MOD_OPENED == "opened"
MOD_CLOSED == "closed"

DefaultInterval == 5

\* the state parameter is not required: None when the task omits it
None == "None"

\* ------------------------------------------------------- request domains
Hosts == {"127.0.0.1", "192.168.100.100"}
PortVals == {22, 10080}
States == {MOD_OPENED, MOD_CLOSED, None}
Intervals == {1, DefaultInterval}
\* type int with no range check: zero and negative values are accepted
RetriesVals == -1 .. MaxRetries

RECURSIVE SeqsUpTo(_, _)
SeqsUpTo(S, n) ==
    IF n = 0 THEN {<<>>}
    ELSE LET shorter == SeqsUpTo(S, n - 1)
         IN  shorter \cup {Append(s, x) : s \in {t \in shorter : Len(t) = n - 1}, x \in S}

PortLists == SeqsUpTo(PortVals, MaxPorts)

\* ------------------------------------------------------ pure functions
\* str(p) of a non-negative int: its decimal digits
Digit(d) ==
    CASE d = 0 -> "0" [] d = 1 -> "1" [] d = 2 -> "2" [] d = 3 -> "3"
      [] d = 4 -> "4" [] d = 5 -> "5" [] d = 6 -> "6" [] d = 7 -> "7"
      [] d = 8 -> "8" [] d = 9 -> "9"

RECURSIVE Str(_)
Str(n) == IF n < 10 THEN Digit(n) ELSE Str(n \div 10) \o Digit(n % 10)

\* sep.join(strs)
RECURSIVE Join(_, _)
Join(sep, strs) ==
    IF strs = <<>> THEN ""
    ELSE IF Len(strs) = 1 THEN strs[1]
    ELSE strs[1] \o sep \o Join(sep, Tail(strs))

\* [str(p) for p in ports]
StrList(ports) == [i \in 1 .. Len(ports) |-> Str(ports[i])]

FailMsgSpaceJoined(prefix, ports) == prefix \o Join(" ", StrList(ports))

\* 'specified ports are ...: %s' % ','.join([str(p) for p in ports])
FailMsg(prefix, ports) == prefix \o Join(",", StrList(ports))

MsgClosed == "specified ports are closed: "
MsgOpened == "specified ports are opened: "

\* for retry in range(retries): the loop body runs while retry < retries
LoopContinuesOffByOne(r, retries) == r <= retries

LoopContinues(r, retries) == r < retries

\* if state: opened.append(port) else: closed.append(port)
ClassifySwapped(ps, port, state) ==
    IF state THEN [ps EXCEPT !.closed = Append(@, port)]
    ELSE [ps EXCEPT !.opened = Append(@, port)]

ClassifyBoth(ps, port, state) ==
    IF state THEN [opened |-> Append(ps.opened, port), closed |-> Append(ps.closed, port)]
    ELSE [ps EXCEPT !.closed = Append(@, port)]

ClassifyPrepend(ps, port, state) ==
    IF state THEN [ps EXCEPT !.opened = <<port>> \o @]
    ELSE [ps EXCEPT !.closed = <<port>> \o @]

Classify(ps, port, state) ==
    IF state THEN [ps EXCEPT !.opened = Append(@, port)]
    ELSE [ps EXCEPT !.closed = Append(@, port)]

\* the responses of AnsibleModule: each is one JSON document and ends the run
exit_json(kwargs) == [call |-> "exit_json", args |-> kwargs]
fail_json(kwargs) == [call |-> "fail_json", args |-> kwargs]

\* an entry of the history of library calls
Event(op, i, s, ok) ==
    [op |-> op, idx |-> i, sock |-> s, ok |-> ok,
     host |-> params.host,
     port |-> IF i \in 1 .. Len(params.ports) THEN params.ports[i] ELSE 0]

\* ---------------------------------------------------------------- Init
Init ==
    /\ params \in [host : Hosts, ports : PortLists, state : States,
                   interval : Intervals, retries : RetriesVals]
    /\ check_mode \in BOOLEAN
    /\ pc = "start"
    /\ idx = 0
    /\ retry = 0
    /\ sock = 0
    /\ nsocks = 0
    /\ ports_state = [opened |-> <<>>, closed |-> <<>>]
    /\ result = [changed |-> FALSE, checker_mode |-> "", checker_status |-> <<>>]
    /\ responses = <<>>
    /\ log = <<>>
    /\ clock = 0

\* -------------------------------------------------------------- actions
\* run_module up to the call of _check_port_list: the seeded result and the
\* check-mode exit
RunModuleNoExit ==
    /\ pc = "start"
    /\ result' = [changed |-> FALSE,
                  checker_mode |-> IF check_mode THEN MOD_DRYRUN ELSE "",
                  checker_status |-> <<>>]
    /\ pc' = "scan" /\ idx' = 1
    /\ ports_state' = [opened |-> <<>>, closed |-> <<>>]
    /\ UNCHANGED <<params, check_mode, retry, sock, nsocks, responses, log, clock>>

RunModule ==
    /\ pc = "start"
    /\ IF check_mode
       THEN /\ result' = [changed |-> FALSE, checker_mode |-> MOD_DRYRUN,
                          checker_status |-> <<>>]
            /\ responses' = Append(responses, exit_json(result'))
            /\ pc' = "done"
            /\ UNCHANGED <<idx, ports_state>>
       ELSE /\ result' = [changed |-> FALSE, checker_mode |-> "",
                          checker_status |-> <<>>]
            /\ pc' = "scan"
            /\ idx' = 1
            /\ ports_state' = [opened |-> <<>>, closed |-> <<>>]
            /\ UNCHANGED responses
    /\ UNCHANGED <<params, check_mode, retry, sock, nsocks, log, clock>>

\* _check_port_list takes the next port and _check_port_open creates its socket
ProbeStart ==
    /\ pc = "scan"
    /\ idx <= Len(params.ports)
    /\ sock' = nsocks + 1
    /\ nsocks' = nsocks + 1
    /\ retry' = 0
    /\ log' = Append(log, Event("socket", idx, nsocks + 1, TRUE))
    /\ pc' = "loop"
    /\ UNCHANGED <<params, check_mode, idx, ports_state, result, responses, clock>>

ConnectOkContinues ==
    /\ pc = "loop"
    /\ LoopContinues(retry, params.retries)
    /\ log' = log \o <<Event("connect", idx, sock, TRUE),
                       Event("close", idx, sock, TRUE)>>
    /\ retry' = retry + 1
    /\ UNCHANGED <<params, check_mode, pc, idx, sock, nsocks, ports_state, result,
                   responses, clock>>

\* sock.connect succeeds: sock.close(), return True, the port is classified
ConnectOk ==
    /\ pc = "loop"
    /\ LoopContinues(retry, params.retries)
    /\ log' = log \o <<Event("connect", idx, sock, TRUE),
                       Event("close", idx, sock, TRUE)>>
    /\ ports_state' = Classify(ports_state, params.ports[idx], TRUE)
    /\ idx' = idx + 1
    /\ pc' = "scan"
    /\ UNCHANGED <<params, check_mode, retry, sock, nsocks, result, responses, clock>>

ConnectFailRaises ==
    /\ pc = "loop"
    /\ LoopContinues(retry, params.retries)
    /\ log' = Append(log, Event("connect", idx, sock, FALSE))
    /\ responses' = Append(responses,
                           [call |-> "traceback", args |-> [msg |-> "socket.error"]])
    /\ pc' = "done"
    /\ UNCHANGED <<params, check_mode, idx, retry, sock, nsocks, ports_state,
                   result, clock>>

\* sock.connect raises socket.error
ConnectFail ==
    /\ pc = "loop"
    /\ LoopContinues(retry, params.retries)
    /\ log' = Append(log, Event("connect", idx, sock, FALSE))
    /\ pc' = "sleep"
    /\ UNCHANGED <<params, check_mode, idx, retry, sock, nsocks, ports_state,
                   result, responses, clock>>

SleepTwice ==
    /\ pc = "sleep"
    /\ log' = log \o <<Event("sleep", idx, sock, TRUE), Event("sleep", idx, sock, TRUE)>>
    /\ clock' = clock + 2 * params.interval
    /\ retry' = retry + 1
    /\ pc' = "loop"
    /\ UNCHANGED <<params, check_mode, idx, sock, nsocks, ports_state, result,
                   responses>>

\* the except branch: time.sleep(interval), then the next iteration
Sleep ==
    /\ pc = "sleep"
    /\ log' = Append(log, Event("sleep", idx, sock, TRUE))
    /\ clock' = clock + params.interval
    /\ retry' = retry + 1
    /\ pc' = "loop"
    /\ UNCHANGED <<params, check_mode, idx, sock, nsocks, ports_state, result,
                   responses>>

\* the loop is exhausted: sock.close(), return False, the port is classified
ProbeFail ==
    /\ pc = "loop"
    /\ ~LoopContinues(retry, params.retries)
    /\ log' = Append(log, Event("close", idx, sock, TRUE))
    /\ ports_state' = Classify(ports_state, params.ports[idx], FALSE)
    /\ idx' = idx + 1
    /\ pc' = "scan"
    /\ UNCHANGED <<params, check_mode, retry, sock, nsocks, result, responses, clock>>

ModeOfDefaultOpened(state, mode) ==
    IF state = "closed" THEN MOD_CLOSED ELSE MOD_OPENED

\* result['checker_mode'] after the branch on module_params['state']
ModeOf(state, mode) ==
    IF state = "opened" THEN MOD_OPENED
    ELSE IF state = "closed" THEN MOD_CLOSED
    ELSE mode

VerdictResponseRejectEmpty(state, res, status) ==
    IF state = "opened" /\ (Len(status.closed) > 0 \/ Len(status.opened) = 0)
    THEN fail_json([msg |-> FailMsg(MsgClosed, status.closed)])
    ELSE IF state = "closed" /\ Len(status.opened) > 0
    THEN fail_json([msg |-> FailMsg(MsgOpened, status.opened)])
    ELSE exit_json(res)

VerdictResponseSwapped(state, res, status) ==
    IF state = "opened" /\ Len(status.opened) > 0
    THEN fail_json([msg |-> FailMsg(MsgClosed, status.opened)])
    ELSE IF state = "closed" /\ Len(status.closed) > 0
    THEN fail_json([msg |-> FailMsg(MsgOpened, status.closed)])
    ELSE exit_json(res)

VerdictResponseAnyOpen(state, res, status) ==
    IF state = "opened" /\ Len(status.closed) > 0
    THEN fail_json([msg |-> FailMsg(MsgClosed, status.closed)])
    ELSE IF state = "closed" /\ Len(status.opened) > 1
    THEN fail_json([msg |-> FailMsg(MsgOpened, status.opened)])
    ELSE exit_json(res)

\* the response of run_module for a state and a checker_status: fail_json
\* is called with the message alone, exit_json with the whole result
VerdictResponse(state, res, status) ==
    IF state = "opened" /\ Len(status.closed) > 0
    THEN fail_json([msg |-> FailMsg(MsgClosed, status.closed)])
    ELSE IF state = "closed" /\ Len(status.opened) > 0
    THEN fail_json([msg |-> FailMsg(MsgOpened, status.opened)])
    ELSE exit_json(res)

EvaluateFallThrough ==
    /\ pc = "scan"
    /\ idx > Len(params.ports)
    /\ result' = [result EXCEPT !.checker_status = ports_state,
                                !.checker_mode = ModeOf(params.state, @)]
    /\ responses' =
          LET r == VerdictResponse(params.state, result', ports_state)
          IN  IF r.call = "fail_json"
              THEN responses \o <<r, exit_json(result')>>
              ELSE Append(responses, r)
    /\ pc' = "done"
    /\ UNCHANGED <<params, check_mode, idx, retry, sock, nsocks, ports_state,
                   log, clock>>

\* run_module after _check_port_list returned: the verdict and the response
Evaluate ==
    /\ pc = "scan"
    /\ idx > Len(params.ports)
    /\ result' = [result EXCEPT !.checker_status = ports_state,
                                !.checker_mode = ModeOf(params.state, @)]
    /\ responses' = Append(responses,
                           VerdictResponse(params.state, result', ports_state))
    /\ pc' = "done"
    /\ UNCHANGED <<params, check_mode, idx, retry, sock, nsocks, ports_state,
                   log, clock>>

Next ==
    \/ RunModule
    \/ ProbeStart
    \/ ConnectOk
    \/ ConnectFail
    \/ Sleep
    \/ ProbeFail
    \/ Evaluate

Spec == Init /\ [][Next]_vars

\* the run is one sequential process and every connect and sleep call returns:
\* a step that can be taken is taken
FairSpec == Spec /\ WF_vars(Next)

\* ------------------------------------------------ reading the history
\* the connection attempts of the probe of occurrence i of the ports list
ConnectsOf(i) == {k \in DOMAIN log : log[k].op = "connect" /\ log[k].idx = i}
Attempts(i) == Cardinality(ConnectsOf(i))
SleepsOf(i) == Cardinality({k \in DOMAIN log : log[k].op = "sleep" /\ log[k].idx = i})
Reached(i) == \E k \in ConnectsOf(i) : log[k].ok
\* the occurrences whose probe has returned
Returned == {i \in 1 .. Len(params.ports) :
                \E k \in DOMAIN log : log[k].op = "close" /\ log[k].idx = i}

\* the ports of the occurrences in S, in input order
RECURSIVE Pick(_, _)
Pick(n, S) ==
    IF n = 0 THEN <<>>
    ELSE IF n \in S THEN Append(Pick(n - 1, S), params.ports[n])
    ELSE Pick(n - 1, S)

ReachedPorts == Pick(Len(params.ports), {i \in Returned : Reached(i)})
UnreachedPorts == Pick(Len(params.ports), {i \in Returned : ~Reached(i)})

Count(s, p) == Cardinality({i \in DOMAIN s : s[i] = p})
Range(s) == {s[i] : i \in DOMAIN s}

RECURSIVE IsSubseq(_, _)
IsSubseq(s, t) ==
    IF s = <<>> THEN TRUE
    ELSE IF t = <<>> THEN FALSE
    ELSE IF Head(s) = Head(t) THEN IsSubseq(Tail(s), Tail(t))
    ELSE IsSubseq(s, Tail(t))

\* reading a message back: the port numbers of a comma-separated decimal list
DigitVal(c) ==
    CASE c = "0" -> 0 [] c = "1" -> 1 [] c = "2" -> 2 [] c = "3" -> 3
      [] c = "4" -> 4 [] c = "5" -> 5 [] c = "6" -> 6 [] c = "7" -> 7
      [] c = "8" -> 8 [] c = "9" -> 9 [] OTHER -> -1

Unreadable == <<-1>>

RECURSIVE ParseFrom(_, _, _, _, _)
ParseFrom(s, i, cur, digits, acc) ==
    IF i > Len(s)
    THEN IF digits > 0 THEN Append(acc, cur)
         ELSE IF acc = <<>> THEN <<>> ELSE Unreadable
    ELSE LET c == SubSeq(s, i, i)
         IN  IF c = ","
             THEN IF digits > 0 THEN ParseFrom(s, i + 1, 0, 0, Append(acc, cur))
                  ELSE Unreadable
             ELSE IF DigitVal(c) >= 0
             THEN ParseFrom(s, i + 1, cur * 10 + DigitVal(c), digits + 1, acc)
             ELSE Unreadable

ParseInts(s) == ParseFrom(s, 1, 0, 0, <<>>)

HasPrefix(s, p) == Len(s) >= Len(p) /\ SubSeq(s, 1, Len(p)) = p
AfterPrefix(s, p) == SubSeq(s, Len(p) + 1, Len(s))

\* the run has ended after probing
Scanned == pc = "done" /\ ~check_mode
Response == responses[Len(responses)]
Succeeded == Response.call = "exit_json"
Failed == Response.call = "fail_json"
\* the violating ports a failure reports
Violating(prefix) ==
    IF HasPrefix(Response.args.msg, prefix)
    THEN ParseInts(AfterPrefix(Response.args.msg, prefix))
    ELSE Unreadable

\* ---------------------------------------------------------------- claims

\* C1: with state=opened, after all ports have been probed the run succeeds
\* iff the closed list is empty; otherwise it fails and the ports the failure
\* reports are exactly the closed list, which holds the ports whose probe
\* returned not reachable.
C1_OpenedVerdict ==
    (Scanned /\ params.state = "opened") =>
        /\ Len(responses) = 1
        /\ ports_state.closed = UnreachedPorts
        /\ Succeeded <=> ports_state.closed = <<>>
        /\ ports_state.closed # <<>> =>
              Failed /\ Violating(MsgClosed) = ports_state.closed

C1_Witness ==
    /\ Scanned /\ params.state = "opened"
    /\ Failed
    /\ ports_state.opened = <<22>>
    /\ ports_state.closed = <<10080>>

\* C2: with state=closed, after all ports have been probed the run succeeds
\* iff the opened list is empty; if a port is reachable it fails and the ports
\* the failure reports are exactly the reachable ports, in probe order.
C2_ClosedVerdict ==
    (Scanned /\ params.state = "closed") =>
        /\ Len(responses) = 1
        /\ Succeeded <=> ports_state.opened = <<>>
        /\ ReachedPorts # <<>> =>
              Failed /\ Violating(MsgOpened) = ReachedPorts

C2_Witness ==
    /\ Scanned /\ params.state = "closed"
    /\ Failed
    /\ params.ports = <<10080, 22>>
    /\ ReachedPorts = <<10080, 22>>

\* C3 as stated: opened and closed together are the multiset of the probed
\* ports, and no port number is in both lists.
C3_DisjointPartition ==
    /\ \A p \in PortVals :
          Count(ports_state.opened, p) + Count(ports_state.closed, p)
             = Count(Pick(Len(params.ports), Returned), p)
    /\ Range(ports_state.opened) \cap Range(ports_state.closed) = {}

\* C3 amended: opened and closed together are the multiset of the probed
\* ports, every probed occurrence is in exactly one list, and a port number is
\* in both lists only if it occurs more than once in the ports sequence.
C3_OccurrencePartition ==
    /\ \A p \in PortVals :
          Count(ports_state.opened, p) + Count(ports_state.closed, p)
             = Count(Pick(Len(params.ports), Returned), p)
    /\ Len(ports_state.opened) + Len(ports_state.closed) = Cardinality(Returned)
    /\ \A p \in Range(ports_state.opened) \cap Range(ports_state.closed) :
          Count(params.ports, p) >= 2

C3_Witness ==
    /\ Scanned
    /\ params.ports = <<22, 22>>
    /\ ports_state.opened = <<22>>
    /\ ports_state.closed = <<22>>

\* C4: the response of a run that probed carries the opened list, the closed
\* list and the mode, on a violation as well as on success.
C4_FullReport ==
    Scanned =>
        /\ "checker_status" \in DOMAIN Response.args
        /\ "checker_mode" \in DOMAIN Response.args
        /\ Response.args.checker_status = ports_state

\* C5: in check mode no connection attempt and no sleep ever happens, and the
\* single response is a success with checker_mode dryrun, an empty
\* checker_status and changed false.
C5_DryRun ==
    check_mode =>
        /\ log = <<>>
        /\ clock = 0
        /\ nsocks = 0
        /\ Len(responses) <= 1
        /\ pc = "done" =>
              /\ Len(responses) = 1
              /\ Response.call = "exit_json"
              /\ DOMAIN Response.args = {"changed", "checker_mode", "checker_status"}
              /\ Response.args.checker_mode = "dryrun"
              /\ DOMAIN Response.args.checker_status = {}
              /\ Response.args.changed = FALSE

C5_Witness ==
    /\ check_mode /\ pc = "done"
    /\ Len(params.ports) = MaxPorts
    /\ params.retries = MaxRetries
    /\ params.state = "opened"

\* C6: with retries >= 1 a probe makes at least one and at most retries
\* connection attempts; with retries = 1 it makes exactly one.
C6_RetryCount ==
    params.retries >= 1 =>
        /\ \A i \in 1 .. Len(params.ports) : Attempts(i) <= params.retries
        /\ \A i \in Returned : Attempts(i) >= 1
        /\ params.retries = 1 => \A i \in Returned : Attempts(i) = 1

C6_Witness ==
    /\ params.retries = MaxRetries
    /\ 1 \in Returned /\ Attempts(1) = MaxRetries
    /\ 2 \in Returned /\ Attempts(2) = 1

\* C7: every sleep of a probe is followed by another connection attempt of
\* the same probe, and a probe whose retries attempts all fail sleeps exactly
\* retries - 1 times.
C7_NoTrailingSleep ==
    /\ \A k \in DOMAIN log :
          (log[k].op = "sleep" /\ k < Len(log)) =>
              log[k + 1].op = "connect" /\ log[k + 1].idx = log[k].idx
    /\ \A i \in Returned :
          (params.retries >= 1 /\ ~Reached(i)) => SleepsOf(i) = params.retries - 1

\* C8: with retries >= 1 the probe returns true iff one of its first retries
\* attempts succeeds and false iff all retries attempts fail: the opened list
\* holds the occurrences with a successful attempt, the closed list those
\* whose retries attempts all failed; a port reachable only on its k-th
\* attempt, k <= retries, is classified as opened.
C8_ProbeResult ==
    params.retries >= 1 =>
        /\ ports_state.opened = ReachedPorts
        /\ ports_state.closed =
              Pick(Len(params.ports),
                   {i \in Returned : Attempts(i) = params.retries
                                     /\ \A k \in ConnectsOf(i) : ~log[k].ok})
        /\ \A i \in Returned : Reached(i) \/ Attempts(i) = params.retries

C8_Witness ==
    /\ params.retries >= 2
    /\ 1 \in Returned
    /\ Attempts(1) = params.retries
    /\ Reached(1)
    /\ ports_state.opened = <<params.ports[1]>>

\* C9: the probe is invoked exactly once per occurrence of the ports
\* sequence, in input order, each probe finishing before the next starts, and
\* the opened, closed and violating lists are subsequences of the ports
\* sequence.
C9_InputOrder ==
    /\ LET starts == SelectSeq(log, LAMBDA e : e.op = "socket")
       IN  /\ \A k \in DOMAIN starts : starts[k].idx = k
           /\ Len(starts) <= Len(params.ports)
           /\ Scanned => Len(starts) = Len(params.ports)
    /\ \A k \in DOMAIN log :
          /\ k > 1 => log[k - 1].idx <= log[k].idx
          /\ log[k].idx \in 1 .. Len(params.ports)
          /\ log[k].port = params.ports[log[k].idx]
          /\ log[k].host = params.host
    /\ IsSubseq(ports_state.opened, params.ports)
    /\ IsSubseq(ports_state.closed, params.ports)
    /\ (Scanned /\ Failed) =>
          IsSubseq(Violating(IF params.state = "opened" THEN MsgClosed ELSE MsgOpened),
                   params.ports)

C9_Witness ==
    /\ Scanned /\ Failed
    /\ params.ports = <<22, 10080>>
    /\ ports_state.closed = <<22, 10080>>
    /\ Attempts(1) = MaxRetries /\ Attempts(2) = MaxRetries

\* C10: a failure is emitted only when the violating list is non-empty, and
\* its message is the fixed prefix followed by the comma-joined violating port
\* numbers in probe order: 'specified ports are closed: ' with the closed list
\* for state=opened, 'specified ports are opened: ' with the opened list for
\* state=closed.
C10_FailureMessage ==
    \A r \in Range(responses) :
        r.call = "fail_json" =>
            /\ DOMAIN r.args = {"msg"}
            /\ params.state \in {"opened", "closed"}
            /\ LET prefix == IF params.state = "opened"
                             THEN "specified ports are closed: "
                             ELSE "specified ports are opened: "
                   list == IF params.state = "opened" THEN UnreachedPorts
                           ELSE ReachedPorts
               IN  /\ list # <<>>
                   /\ HasPrefix(r.args.msg, prefix)
                   /\ ParseInts(AfterPrefix(r.args.msg, prefix)) = list

C10_Witness ==
    /\ Scanned /\ Failed
    /\ params.state = "closed"
    /\ Response.args.msg = "specified ports are opened: 22,10080"

\* C11: every response the run emits, dry-run, satisfied or violation, carries
\* changed = false.
C11_ChangedFalse ==
    \A r \in Range(responses) :
        "changed" \in DOMAIN r.args /\ r.args.changed = FALSE

\* C12: the checker_mode of every response is opened, closed or dryrun: the
\* requested state whenever the run probed, and dryrun iff it did not.
C12_CheckerMode ==
    \A r \in Range(responses) :
        /\ "checker_mode" \in DOMAIN r.args
        /\ r.args.checker_mode \in {"opened", "closed", "dryrun"}
        /\ ~check_mode => r.args.checker_mode = params.state
        /\ r.args.checker_mode = "dryrun" <=> check_mode

\* C13: once a connection attempt of a probe succeeds, the socket is closed
\* next, the probe returns, and the probe makes no further attempt and no
\* sleep; the successful attempt is the last of the probe's attempts and the
\* only successful one.
C13_ShortCircuit ==
    \A k \in DOMAIN log :
        (log[k].op = "connect" /\ log[k].ok) =>
            /\ k < Len(log)
            /\ log[k + 1].op = "close"
            /\ log[k + 1].sock = log[k].sock
            /\ log[k + 1].idx = log[k].idx
            /\ \A j \in DOMAIN log :
                  (j > k + 1) => log[j].idx # log[k].idx
            /\ \A j \in ConnectsOf(log[k].idx) : j < k => ~log[j].ok
            /\ Attempts(log[k].idx) =
                  Cardinality({j \in ConnectsOf(log[k].idx) : j <= k})
            /\ log[k].idx \in Returned

C13_Witness ==
    /\ params.retries = MaxRetries
    /\ Attempts(1) = 2
    /\ Reached(1)
    /\ \E k \in DOMAIN log : log[k].idx = 2 /\ log[k].op = "connect"

\* C14: no socket object is used for more than one connection attempt,
\* neither across the attempts of one probe nor across ports.
C14_SocketPerAttempt ==
    \A j, k \in DOMAIN log :
        (j # k /\ log[j].op = "connect" /\ log[k].op = "connect") =>
            log[j].sock # log[k].sock

\* C15: a failed connection attempt is never surfaced as an error: it is
\* followed by the sleep of the except branch and uses up one attempt of the
\* probe, the only responses are the verdicts of run_module, and a finished
\* scan has classified every occurrence of the ports sequence.
C15_FailureAbsorbed ==
    /\ \A r \in Range(responses) : r.call \in {"exit_json", "fail_json"}
    /\ \A k \in DOMAIN log :
          (log[k].op = "connect" /\ ~log[k].ok /\ k < Len(log)) =>
              log[k + 1].op = "sleep" /\ log[k + 1].idx = log[k].idx
    /\ \A i \in Returned :
          ~Reached(i) =>
              Cardinality({k \in ConnectsOf(i) : ~log[k].ok})
                 = IF params.retries > 0 THEN params.retries ELSE 0
    /\ Scanned =>
          /\ Returned = 1 .. Len(params.ports)
          /\ Len(ports_state.opened) + Len(ports_state.closed) = Len(params.ports)

C15_Witness ==
    /\ Scanned
    /\ Len(params.ports) = 2
    /\ Attempts(1) = MaxRetries /\ ~Reached(1)
    /\ Attempts(2) = 2 /\ Reached(2)

\* the time the probe of occurrence i has waited on the virtual clock
Waited(i) == SleepsOf(i) * params.interval
TotalSleeps == Cardinality({k \in DOMAIN log : log[k].op = "sleep"})
TotalAttempts == Cardinality({k \in DOMAIN log : log[k].op = "connect"})

C18_EmptyPorts ==
    (params.ports = <<>> /\ ~check_mode) =>
        /\ log = <<>>
        /\ clock = 0
        /\ \A r \in Range(responses) : r.call = "exit_json"
        /\ pc = "done" =>
              /\ Len(responses) = 1
              /\ Response.args.checker_status = [opened |-> <<>>, closed |-> <<>>]
              /\ params.state \in {"opened", "closed"} =>
                    Response.args.checker_mode = params.state

C18_Witness ==
    /\ Scanned
    /\ params.ports = <<>>
    /\ params.state = "opened"
    /\ Succeeded

\* C19: with retries <= 0 a probe makes no connection attempt and no sleep and
\* returns not reachable: every port is classified closed without being
\* contacted, a state=closed request succeeds and a state=opened request with
\* a non-empty ports list fails.
C19_NoRetries ==
    (params.retries <= 0 /\ ~check_mode) =>
        /\ TotalAttempts = 0
        /\ TotalSleeps = 0
        /\ ports_state.opened = <<>>
        /\ ports_state.closed = Pick(Len(params.ports), Returned)
        /\ pc = "done" =>
              /\ ports_state.closed = params.ports
              /\ params.state = "closed" => Succeeded
              /\ (params.state = "opened" /\ params.ports # <<>>) =>
                    Failed /\ Violating(MsgClosed) = params.ports

C19_Witness ==
    /\ Scanned
    /\ params.retries = -1
    /\ params.state = "opened"
    /\ params.ports = <<22, 10080>>
    /\ Failed

====
